---- MODULE Spec2Model ----
(***************************************************************************)
(* goxkit/logging: construction of the application logger.                 *)
(*                                                                         *)
(* The state is the shared *configs.Configs object, the process-wide       *)
(* OpenTelemetry logger-provider slot, the heap of objects the builders    *)
(* allocate (gRPC connections, exporters, providers, zap loggers), the     *)
(* result of the last construction call, and the sinks the loggers write   *)
(* to (standard output, each provider's batch queue, the collector).       *)
(*                                                                         *)
(* The repository's sources hold more than one revision of some            *)
(* functions.  Each revision is modelled by its own definition:            *)
(*   NewLogger          src/logging.go          (calls noop.Install)       *)
(*   NewLoggerNilNil    src/noop/noop.go:55-67  (returns nil, nil)         *)
(*   otlp_Install       src/otlp/otlp.go        (shared gRPC connection)   *)
(*   otlp_InstallDial   src/unnamed/part_000    (exporter dials endpoint)  *)
(*   noop_Install       src/unnamed/part_001    (zero-processor provider)  *)
(*   noop_InstallPlain  src/noop/noop.go:10-12  (stdout logger only)       *)
(*                                                                         *)
(* Four processes are specified: Spec (construction), SpecLogging and      *)
(* SpecLoggingFair (construction through NewLogger, then logging),         *)
(* SpecConc (two goroutines in otlp.Install, line by line) and SpecMock    *)
(* (a unit test with the MockLogger of src/mock.go).                       *)
(***************************************************************************)
EXTENDS Integers, Sequences, FiniteSets, TLC

\* ---------------------------------------------------------------- bounds
MaxBuilds == 2      \* construction calls in one run
MaxLogs   == 1      \* logging calls in one run
MaxMockCalls == 2   \* calls the code under test makes on a MockLogger

\* ------------------------------------------------------------- constants
Nil == 0            \* the nil pointer / empty slot

\* zapcore.Level values named by the source
DebugLevel == 0 - 1
InfoLevel  == 0
WarnLevel  == 1
ErrorLevel == 2
PanicLevel == 4
FatalLevel == 5

NoErr == "nil"

\* configs.Environment: the six constants the builders compare against
Environments ==
  {"UnknownEnv", "LocalEnv", "DevelopmentEnv", "StagingEnv", "QaEnv", "ProductionEnv"}

\* configs.LogLevel: the five constants of the switch, and OTHER for any value
\* that is none of them (an unrecognised level, or the field left unset)
LogLevels == {"DEBUG", "INFO", "WARN", "ERROR", "PANIC", "OTHER"}

\* the methods of the Logger interface that write a record, with their level
Methods == {"Debug", "Info", "Warn", "Error", "Fatal"}

MethodLevel(m) ==
  CASE m = "Debug" -> DebugLevel
    [] m = "Info"  -> InfoLevel
    [] m = "Warn"  -> WarnLevel
    [] m = "Error" -> ErrorLevel
    [] m = "Fatal" -> FatalLevel

VARIABLES
  cfgs,            \* the *configs.Configs every builder receives
  globalProvider,  \* global.SetLoggerProvider's slot (Nil: the API default)
  conns,           \* gRPC connections created so far: <<[by |-> creator]>>
  exporters,       \* log exporters: <<[conn, compressor, timeout]>>
  providers,       \* sdklog.LoggerProvider objects: <<[processors]>>
  loggers,         \* zap.Logger objects: <<[cores]>>
  last,            \* the last construction call: arguments, result, pre-state
  stdout,          \* records written to os.Stdout
  queue,           \* queue[p]: records buffered by provider p's batch processor
  collector,       \* records the exporters have delivered
  calls,           \* the logging calls made so far
  proc,            \* "running", "exiting" (Fatal has written its entry),
                   \* "exited" (os.Exit returned control to the OS) or "panicked"
  nBuilds,         \* construction calls made so far
  rev,             \* the revision of each function the process is built from
  exitStatus,      \* the status os.Exit was called with, once proc = "exited"
  mock,            \* the MockLogger of a unit test: testify's mock.Mock fields
  inst             \* inst[g]: the otlp.Install call goroutine g is running

vars == <<cfgs, globalProvider, conns, exporters, providers, loggers, last,
          stdout, queue, collector, calls, proc, nBuilds, rev, exitStatus, mock, inst>>

\* --------------------------------------------------- package zap (zap.go)

\* The switch with its default branch returning the lowest level.
mapZapLogLevel_DefaultDebug(level) ==
  CASE level = "DEBUG" -> DebugLevel
    [] level = "INFO"  -> InfoLevel
    [] level = "WARN"  -> WarnLevel
    [] level = "ERROR" -> ErrorLevel
    [] level = "PANIC" -> PanicLevel
    [] OTHER           -> DebugLevel

mapZapLogLevel(level) ==
  CASE level = "DEBUG" -> DebugLevel
    [] level = "INFO"  -> InfoLevel
    [] level = "WARN"  -> WarnLevel
    [] level = "ERROR" -> ErrorLevel
    [] level = "PANIC" -> PanicLevel
    [] OTHER           -> InfoLevel

\* zap.NewProductionEncoderConfig() / zap.NewDevelopmentEncoderConfig(), as far
\* as the builders touch them
NewProductionEncoderConfig ==
  [EncodeLevel |-> "LowercaseLevelEncoder", EncodeTime |-> "EpochTimeEncoder"]

NewDevelopmentEncoderConfig ==
  [EncodeLevel |-> "CapitalLevelEncoder", EncodeTime |-> "ISO8601TimeEncoder"]

NewJSONEncoder(encoderCfg) ==
  [format |-> "json", EncodeLevel |-> encoderCfg.EncodeLevel,
   EncodeTime |-> encoderCfg.EncodeTime]

NewConsoleEncoder(encoderCfg) ==
  [format |-> "console", EncodeLevel |-> encoderCfg.EncodeLevel,
   EncodeTime |-> encoderCfg.EncodeTime]

NoEncoder == [format |-> "none", EncodeLevel |-> "none", EncodeTime |-> "none"]

\* zapcore.NewCore(enc, os.Stdout, minLevel)
NewCore(enc, minLevel) ==
  [kind |-> "io", enc |-> enc, minLevel |-> minLevel, provider |-> Nil]

\* otelzap.NewCore(name, otelzap.WithLoggerProvider(provider)): no level is
\* handed to the bridge
NewOtelCore(provider) ==
  [kind |-> "otelzap", enc |-> NoEncoder, minLevel |-> DebugLevel, provider |-> provider]

\* The encoder NewZapLogger hands to its stdout core (first with Staging in
\* the console branch).
ZapLoggerEncoder_ColorInStaging(env) ==
  LET encoderCfg == [NewProductionEncoderConfig EXCEPT !.EncodeTime = "ISO8601TimeEncoder"]
  IN IF env \in {"DevelopmentEnv", "QaEnv", "LocalEnv", "UnknownEnv", "StagingEnv"}
       THEN NewConsoleEncoder([encoderCfg EXCEPT !.EncodeLevel = "CapitalColorLevelEncoder"])
       ELSE NewJSONEncoder(encoderCfg)

ZapLoggerEncoder(env) ==
  LET encoderCfg == [NewProductionEncoderConfig EXCEPT !.EncodeTime = "ISO8601TimeEncoder"]
  IN IF env = "DevelopmentEnv" \/ env = "QaEnv" \/ env = "LocalEnv" \/ env = "UnknownEnv"
       THEN NewConsoleEncoder([encoderCfg EXCEPT !.EncodeLevel = "CapitalColorLevelEncoder"])
       ELSE NewJSONEncoder(encoderCfg)

\* The encoder NewStdoutZapLogger hands to its only core.
StdoutZapLoggerEncoder(env) ==
  IF env = "ProductionEnv" \/ env = "StagingEnv"
    THEN NewJSONEncoder(
           [NewProductionEncoderConfig EXCEPT !.EncodeTime = "ISO8601TimeEncoder"])
    ELSE NewConsoleEncoder(
           [NewDevelopmentEncoderConfig EXCEPT !.EncodeTime = "ISO8601TimeEncoder",
                                               !.EncodeLevel = "CapitalColorLevelEncoder"])

\* A builder works on the world w = [cfgs, global, conns, exporters, providers,
\* loggers, trace] and returns [w, logger, err]: the new world, the *zap.Logger
\* it returns (Nil for nil) and its error.  w.trace lists the functions the
\* call has entered and the external constructors it has attempted.
Enter(w, what) == [w EXCEPT !.trace = Append(@, what)]

\* NewZapLogger (first with its tee holding the stdout core only)
NewZapLogger_NoBridge(w, provider) ==
  LET w0 == Enter(w, "zap.NewZapLogger")
      defaultCore == NewCore(ZapLoggerEncoder(w0.cfgs.Environment),
                             mapZapLogLevel(w0.cfgs.LogLevel))
      logger == [cores |-> <<defaultCore>>]
  IN [w |-> [w0 EXCEPT !.loggers = Append(@, logger)],
      logger |-> Len(w0.loggers) + 1, err |-> NoErr]

\* NewZapLogger storing its logger in cfgs.Logger, as NewStdoutZapLogger does
NewZapLogger_StoresLogger(w, provider) ==
  LET w0 == Enter(w, "zap.NewZapLogger")
      defaultCore == NewCore(ZapLoggerEncoder(w0.cfgs.Environment),
                             mapZapLogLevel(w0.cfgs.LogLevel))
      otelCore == NewOtelCore(provider)
      logger == [cores |-> <<defaultCore, otelCore>>]
      ptr == Len(w0.loggers) + 1
  IN [w |-> [w0 EXCEPT !.loggers = Append(@, logger), !.cfgs.Logger = ptr],
      logger |-> ptr, err |-> NoErr]

NewZapLogger(w, provider) ==
  LET w0 == Enter(w, "zap.NewZapLogger")
      defaultCore == NewCore(ZapLoggerEncoder(w0.cfgs.Environment),
                             mapZapLogLevel(w0.cfgs.LogLevel))
      otelCore == NewOtelCore(provider)
      logger == [cores |-> <<defaultCore, otelCore>>]
  IN [w |-> [w0 EXCEPT !.loggers = Append(@, logger)],
      logger |-> Len(w0.loggers) + 1, err |-> NoErr]

\* NewStdoutZapLogger (first with its core at the lowest level whatever
\* cfgs.AppConfigs.LogLevel says)
NewStdoutZapLogger_DebugCore(w) ==
  LET w0 == Enter(w, "zap.NewStdoutZapLogger")
      logger == [cores |-> <<NewCore(StdoutZapLoggerEncoder(w0.cfgs.Environment),
                                     DebugLevel)>>]
      ptr == Len(w0.loggers) + 1
  IN [w |-> [w0 EXCEPT !.loggers = Append(@, logger), !.cfgs.Logger = ptr],
      logger |-> ptr, err |-> NoErr]

NewStdoutZapLogger(w) ==
  LET w0 == Enter(w, "zap.NewStdoutZapLogger")
      logger == [cores |-> <<NewCore(StdoutZapLoggerEncoder(w0.cfgs.Environment),
                                     mapZapLogLevel(w0.cfgs.LogLevel))>>]
      ptr == Len(w0.loggers) + 1
  IN [w |-> [w0 EXCEPT !.loggers = Append(@, logger), !.cfgs.Logger = ptr],
      logger |-> ptr, err |-> NoErr]

\* ------------------------------------------------------------ package otlp

\* otlp.Install, src/otlp/otlp.go.  connOk and expOk are the outcomes of
\* otlpgrpc.NewExporterGRPCClient and otlploggrpc.New.
NewConn(w, by) ==
  [w EXCEPT !.conns = Append(@, [by |-> by])]

NewExporter(w, conn, compressor, timeout) ==
  [w EXCEPT !.exporters =
     Append(@, [conn |-> conn, compressor |-> compressor, timeout |-> timeout])]

\* sdklog.NewBatchProcessor(exp); sdklog.NewLoggerProvider(WithProcessor(..))
NewBatchProcessor(exp) == [kind |-> "batch", exporter |-> exp]

NewLoggerProvider(w, processors) ==
  [w EXCEPT !.providers = Append(@, [processors |-> processors])]

\* Lines 64-80 of otlp.Install: provider, registration, combined logger
\* (first without the global.SetLoggerProvider line).
InstallTail_NoGlobal(w, exp) ==
  LET w1 == NewLoggerProvider(w, <<NewBatchProcessor(exp)>>)
      provider == Len(w1.providers)
      w2 == [w1 EXCEPT !.cfgs.LoggerProvider = provider]
  IN NewZapLogger(w2, provider)

InstallTail(w, exp) ==
  LET w1 == NewLoggerProvider(w, <<NewBatchProcessor(exp)>>)
      provider == Len(w1.providers)
      w2 == [w1 EXCEPT !.global = provider, !.cfgs.LoggerProvider = provider]
  IN NewZapLogger(w2, provider)

\* Lines 48-54 of otlp.Install: acquire or reuse the connection (first
\* without the nil check, then without the write-back).
AcquireConn_Always(w, connOk) ==
  LET w1 == Enter(w, "otlpgrpc.NewExporterGRPCClient")
  IN IF ~connOk
       THEN [w |-> w1, err |-> "ErrConn"]
       ELSE LET w2 == NewConn(w1, "otlp.Install")
            IN [w |-> [w2 EXCEPT !.cfgs.OTLPExporterConn = Len(w2.conns)],
                err |-> NoErr]

AcquireConn_NoWriteBack(w, connOk) ==
  IF w.cfgs.OTLPExporterConn = Nil
    THEN LET w1 == Enter(w, "otlpgrpc.NewExporterGRPCClient")
         IN IF ~connOk
              THEN [w |-> w1, err |-> "ErrConn"]
              ELSE [w |-> NewConn(w1, "otlp.Install"), err |-> NoErr]
    ELSE [w |-> w, err |-> NoErr]

AcquireConn(w, connOk) ==
  IF w.cfgs.OTLPExporterConn = Nil
    THEN LET w1 == Enter(w, "otlpgrpc.NewExporterGRPCClient")
         IN IF ~connOk
              THEN [w |-> w1, err |-> "ErrConn"]
              ELSE LET w2 == NewConn(w1, "otlp.Install")
                   IN [w |-> [w2 EXCEPT !.cfgs.OTLPExporterConn = Len(w2.conns)],
                       err |-> NoErr]
    ELSE [w |-> w, err |-> NoErr]

\* otlp.Install with the slot put back as it was when the exporter fails
otlp_Install_RestoresSlot(w, connOk, expOk) ==
  LET w0 == Enter(w, "otlp.Install")
      a  == AcquireConn(w0, connOk)
  IN IF a.err # NoErr
       THEN [w |-> a.w, logger |-> Nil, err |-> a.err]
       ELSE LET w1 == Enter(a.w, "otlploggrpc.New")
            IN IF ~expOk
                 THEN [w |-> [w1 EXCEPT !.cfgs.OTLPExporterConn = w0.cfgs.OTLPExporterConn],
                       logger |-> Nil, err |-> "ErrExporter"]
                 ELSE LET w2 == NewExporter(w1, w1.cfgs.OTLPExporterConn,
                                            "none", "default")
                      IN InstallTail(w2, Len(w2.exporters))

otlp_Install(w, connOk, expOk) ==
  LET w0 == Enter(w, "otlp.Install")
      a  == AcquireConn(w0, connOk)
  IN IF a.err # NoErr
       THEN [w |-> a.w, logger |-> Nil, err |-> a.err]
       ELSE LET w1 == Enter(a.w, "otlploggrpc.New")
            IN IF ~expOk
                 THEN [w |-> w1, logger |-> Nil, err |-> "ErrExporter"]
                 ELSE LET w2 == NewExporter(w1, w1.cfgs.OTLPExporterConn,
                                            "none", "default")
                      IN InstallTail(w2, Len(w2.exporters))

\* otlp.Install of src/otlp/otlp.go once more, one shared-memory access at a
\* time, for calls that run concurrently on one *configs.Configs.  A step
\* works on the world w and the call's locals l = [pc, conn, exp, provider,
\* logger, err, alone] and returns [w, l]; l.pc is the line the call is at.
NotCalled ==
  [pc |-> "idle", conn |-> Nil, exp |-> Nil, provider |-> Nil, logger |-> Nil,
   err |-> NoErr, alone |-> TRUE]

\* line 48: if cfgs.OTLPExporterConn == nil
InstallCheck(w, l) ==
  [w |-> w,
   l |-> [l EXCEPT !.pc = IF w.cfgs.OTLPExporterConn = Nil THEN "dial" ELSE "exporter"]]

\* lines 49-52: conn, err := otlpgrpc.NewExporterGRPCClient(cfgs)
InstallDial(w, l, ok) ==
  IF ~ok
    THEN [w |-> w, l |-> [l EXCEPT !.pc = "done", !.err = "ErrConn"]]
    ELSE LET w1 == NewConn(w, "otlp.Install")
         IN [w |-> w1, l |-> [l EXCEPT !.pc = "store", !.conn = Len(w1.conns)]]

\* line 53: cfgs.OTLPExporterConn = conn (first with the line left out)
InstallStoreConn_Skip(w, l) ==
  [w |-> w, l |-> [l EXCEPT !.pc = "exporter"]]

InstallStoreConn(w, l) ==
  [w |-> [w EXCEPT !.cfgs.OTLPExporterConn = l.conn],
   l |-> [l EXCEPT !.pc = "exporter"]]

\* lines 56-62: otlploggrpc.New(ctx, WithGRPCConn(cfgs.OTLPExporterConn))
InstallExporter(w, l, ok) ==
  IF ~ok
    THEN [w |-> w, l |-> [l EXCEPT !.pc = "done", !.err = "ErrExporter"]]
    ELSE LET w1 == NewExporter(w, w.cfgs.OTLPExporterConn, "none", "default")
         IN [w |-> w1, l |-> [l EXCEPT !.pc = "provider", !.exp = Len(w1.exporters)]]

\* lines 64-75: the batch processor and the provider
InstallProvider(w, l) ==
  LET w1 == NewLoggerProvider(w, <<NewBatchProcessor(l.exp)>>)
  IN [w |-> w1, l |-> [l EXCEPT !.pc = "setGlobal", !.provider = Len(w1.providers)]]

\* line 77: global.SetLoggerProvider(provider)
InstallSetGlobal(w, l) ==
  [w |-> [w EXCEPT !.global = l.provider], l |-> [l EXCEPT !.pc = "setCfgs"]]

\* line 78: cfgs.LoggerProvider = provider (first with the line left out)
InstallSetCfgs_Skip(w, l) ==
  [w |-> w, l |-> [l EXCEPT !.pc = "zap"]]

InstallSetCfgs(w, l) ==
  [w |-> [w EXCEPT !.cfgs.LoggerProvider = l.provider],
   l |-> [l EXCEPT !.pc = "zap"]]

\* line 80: return zapInstance.NewZapLogger(cfgs, provider)
InstallReturn(w, l) ==
  LET r == NewZapLogger(w, l.provider)
  IN [w |-> r.w, l |-> [l EXCEPT !.pc = "done", !.logger = r.logger, !.err = r.err]]

\* The next step of a call that is at l.pc.
otlp_InstallStep(w, l, ok) ==
  CASE l.pc = "check"     -> InstallCheck(w, l)
    [] l.pc = "dial"      -> InstallDial(w, l, ok)
    [] l.pc = "store"     -> InstallStoreConn(w, l)
    [] l.pc = "exporter"  -> InstallExporter(w, l, ok)
    [] l.pc = "provider"  -> InstallProvider(w, l)
    [] l.pc = "setGlobal" -> InstallSetGlobal(w, l)
    [] l.pc = "setCfgs"   -> InstallSetCfgs(w, l)
    [] l.pc = "zap"       -> InstallReturn(w, l)

\* otlp.Install, src/unnamed/part_000: the exporter is given the endpoint and
\* dials its own connection; cfgs.OTLPExporterConn is not read or written.
otlp_InstallDial(w, connOk, expOk) ==
  LET w0 == Enter(Enter(w, "otlp.Install"), "otlploggrpc.New")
  IN IF ~expOk
       THEN [w |-> w0, logger |-> Nil, err |-> "ErrExporter"]
       ELSE LET w1 == NewConn(w0, "otlploggrpc.New")
                w2 == NewExporter(w1, Len(w1.conns), "gzip", "ExporterTimeout")
            IN InstallTail(w2, Len(w2.exporters))

\* ------------------------------------------------------------ package noop

\* noop.Install with a global.SetLoggerProvider(provider) line added
noop_Install_Registers(w) ==
  LET w0 == Enter(w, "noop.Install")
      w1 == NewLoggerProvider(w0, <<>>)
      provider == Len(w1.providers)
  IN NewStdoutZapLogger([w1 EXCEPT !.cfgs.LoggerProvider = provider,
                                   !.global = provider])

\* noop.Install, src/unnamed/part_001 (and part_002)
noop_Install(w) ==
  LET w0 == Enter(w, "noop.Install")
      w1 == NewLoggerProvider(w0, <<>>)
      provider == Len(w1.providers)
  IN NewStdoutZapLogger([w1 EXCEPT !.cfgs.LoggerProvider = provider])

\* noop.Install, src/noop/noop.go
noop_InstallPlain(w) ==
  NewStdoutZapLogger(Enter(w, "noop.Install"))

\* --------------------------------------------------------- package logging

\* The revisions of the functions a process may be built from.
LoggingRevs == {"logging.go", "noop.go:55"}
OtlpRevs == {"otlp.go", "part_000"}
NoopRevs == {"noop.go", "part_001"}

\* The goroutines that may call otlp.Install on the shared configuration.
Installers == {"A", "B"}

CallOtlp(orev, w, connOk, expOk) ==
  IF orev = "otlp.go" THEN otlp_Install(w, connOk, expOk)
                     ELSE otlp_InstallDial(w, connOk, expOk)

CallNoop(nrev, w) ==
  IF nrev = "part_001" THEN noop_Install(w) ELSE noop_InstallPlain(w)

\* A Go interface value of type Logger: its dynamic type and the pointer it
\* holds.  The nil interface has no dynamic type; a *zap.Logger converted to
\* Logger always has one, also when the pointer is nil.
NilLogger == [dyn |-> "none", ptr |-> Nil]

ToLogger(ptr) == [dyn |-> "*zap.Logger", ptr |-> ptr]

IsNilInterface(h) == h.dyn = "none"

\* The return of NewLogger with the builder's error replaced by one of its own
ReturnAsLogger_Wrapped(r) ==
  [w |-> r.w, handle |-> ToLogger(r.logger),
   err |-> IF r.err = NoErr THEN NoErr ELSE "ErrNewLogger"]

\* `return f(cfgs)` in a function returning (Logger, error): each result of f
\* is assigned to the result parameter of that type.
ReturnAsLogger(r) == [w |-> r.w, handle |-> ToLogger(r.logger), err |-> r.err]

\* NewLogger, src/logging.go (first with the OTLP builder run on both paths)
NewLogger_BothBuilders(w, orev, nrev, connOk, expOk) ==
  LET w0 == Enter(w, "NewLogger")
      r  == CallOtlp(orev, w0, connOk, expOk)
  IN IF w0.cfgs.Enabled
       THEN ReturnAsLogger(r)
       ELSE ReturnAsLogger(CallNoop(nrev, r.w))

NewLogger(w, orev, nrev, connOk, expOk) ==
  LET w0 == Enter(w, "NewLogger")
  IN IF w0.cfgs.Enabled
       THEN ReturnAsLogger(CallOtlp(orev, w0, connOk, expOk))
       ELSE ReturnAsLogger(CallNoop(nrev, w0))

\* NewLogger, src/noop/noop.go lines 55-67: `return nil, nil` when disabled
NewLoggerNilNil(w, orev, nrev, connOk, expOk) ==
  LET w0 == Enter(w, "NewLogger")
  IN IF w0.cfgs.Enabled
       THEN ReturnAsLogger(CallOtlp(orev, w0, connOk, expOk))
       ELSE [w |-> w0, handle |-> NilLogger, err |-> NoErr]

\* ------------------------------------------------------------------ state

\* ---------------------------------------------------- MockLogger (mock.go)

\* NewMockLogger: new(MockLogger).  ExpectedCalls and Calls are the fields of
\* the embedded testify mock.Mock; invoked lists the Logger methods the code
\* under test has called on the mock.
NewMockLogger == [ExpectedCalls |-> {}, Calls |-> <<>>, invoked |-> <<>>]

\* mockLogger.On(method, ...).Return(): mock.Mock registers the expectation.
MockOn(mk, method) == [mk EXCEPT !.ExpectedCalls = @ \cup {method}]

\* func (m *MockLogger) Debug/Info/Warn/Error/Fatal(_ string, _ ...zap.Field) {}
\* The body is empty: m.Called is not called and mock.Mock records nothing.
MockLoggerMethod(mk, method) == [mk EXCEPT !.invoked = Append(@, method)]

Range(seq) == {seq[i] : i \in DOMAIN seq}

\* mockLogger.AssertExpectations(t): mock.Mock passes when every expected
\* call is among the calls it recorded.
AssertExpectations(mk) == mk.ExpectedCalls \subseteq Range(mk.Calls)

NoSnapshot ==
  [cfgs |-> [Enabled |-> FALSE, Environment |-> "UnknownEnv", LogLevel |-> "OTHER",
             OTLPExporterConn |-> Nil, LoggerProvider |-> Nil, Logger |-> Nil],
   global |-> Nil, nconns |-> 0, nexporters |-> 0, nproviders |-> 0, nloggers |-> 0]

NoCall ==
  [op |-> "none", handle |-> NilLogger, ptr |-> Nil,
   err |-> NoErr, trace |-> <<>>, pre |-> NoSnapshot, post |-> NoSnapshot]

Init ==
  /\ cfgs \in [Enabled : BOOLEAN, Environment : Environments, LogLevel : LogLevels,
               OTLPExporterConn : {Nil}, LoggerProvider : {Nil}, Logger : {Nil}]
  /\ globalProvider = Nil
  /\ conns = <<>>
  /\ exporters = <<>>
  /\ providers = <<>>
  /\ loggers = <<>>
  /\ last = NoCall
  /\ stdout = <<>>
  /\ queue = <<>>
  /\ collector = <<>>
  /\ calls = <<>>
  /\ proc = "running"
  /\ nBuilds = 0
  /\ rev \in [logging : LoggingRevs, otlp : OtlpRevs, noop : NoopRevs]
  /\ exitStatus = 0
  /\ mock = NewMockLogger
  /\ inst = [g \in Installers |-> NotCalled]

\* The world a construction call starts in, and what the claims need of it
\* afterwards.
World ==
  [cfgs |-> cfgs, global |-> globalProvider, conns |-> conns,
   exporters |-> exporters, providers |-> providers, loggers |-> loggers,
   trace |-> <<>>]

Snapshot(w) ==
  [cfgs |-> w.cfgs, global |-> w.global, nconns |-> Len(w.conns),
   nexporters |-> Len(w.exporters), nproviders |-> Len(w.providers),
   nloggers |-> Len(w.loggers)]

\* The state after a construction call that ended in world w.
Commit(op, w, handle, ptr, err) ==
  /\ cfgs' = w.cfgs
  /\ globalProvider' = w.global
  /\ conns' = w.conns
  /\ exporters' = w.exporters
  /\ providers' = w.providers
  /\ loggers' = w.loggers
  /\ queue' = [p \in 1..Len(w.providers) |->
                 IF p <= Len(queue) THEN queue[p] ELSE <<>>]
  /\ last' = [op |-> op, handle |-> handle, ptr |-> ptr, err |-> err, trace |-> w.trace,
              pre |-> Snapshot(World), post |-> Snapshot(w)]
  /\ nBuilds' = nBuilds + 1
  /\ UNCHANGED <<stdout, collector, calls, proc, rev, exitStatus, mock, inst>>

CanBuild == proc = "running" /\ nBuilds < MaxBuilds

\* ---------------------------------------------------------------- actions

\* logging.NewLogger(cfgs), src/logging.go
CallNewLogger ==
  /\ CanBuild
  /\ rev.logging = "logging.go"
  /\ \E connOk \in BOOLEAN, expOk \in BOOLEAN :
       LET r == NewLogger(World, rev.otlp, rev.noop, connOk, expOk)
       IN Commit("NewLogger", r.w, r.handle, r.handle.ptr, r.err)

\* logging.NewLogger(cfgs), the revision of src/noop/noop.go lines 55-67
CallNewLoggerNilNil ==
  /\ CanBuild
  /\ rev.logging = "noop.go:55"
  /\ \E connOk \in BOOLEAN, expOk \in BOOLEAN :
       LET r == NewLoggerNilNil(World, rev.otlp, rev.noop, connOk, expOk)
       IN Commit("NewLogger", r.w, r.handle, r.handle.ptr, r.err)

\* otlp.Install(cfgs) called directly
CallOtlpInstall ==
  /\ CanBuild
  /\ \E connOk \in BOOLEAN, expOk \in BOOLEAN :
       LET r == CallOtlp(rev.otlp, World, connOk, expOk)
       IN Commit("otlp.Install", r.w, NilLogger, r.logger, r.err)

\* noop.Install(cfgs) called directly
CallNoopInstall ==
  /\ CanBuild
  /\ LET r == CallNoop(rev.noop, World)
     IN Commit("noop.Install", r.w, NilLogger, r.logger, r.err)

\* The caller switches export on or off in the configuration before a
\* construction call.
Reconfigure ==
  /\ CanBuild
  /\ cfgs' = [cfgs EXCEPT !.Enabled = ~@]
  /\ UNCHANGED <<globalProvider, conns, exporters, providers, loggers, last,
                 stdout, queue, collector, calls, proc, nBuilds, rev, exitStatus, mock, inst>>

\* A sibling subsystem (tracing, metrics) that shares the configuration fills
\* the empty connection slot with the connection it created, before a
\* construction call.
SiblingConnects ==
  /\ CanBuild
  /\ cfgs.OTLPExporterConn = Nil
  /\ conns' = Append(conns, [by |-> "sibling"])
  /\ cfgs' = [cfgs EXCEPT !.OTLPExporterConn = Len(conns) + 1]
  /\ UNCHANGED <<globalProvider, exporters, providers, loggers, last, stdout,
                 queue, collector, calls, proc, nBuilds, rev, exitStatus, mock, inst>>

\* zap's check: an io core takes entries at or above its level; the bridge
\* core asks its provider, which says yes when it has a processor.
CoreEnabled(core, lvl) ==
  IF core.kind = "io"
    THEN lvl >= core.minLevel
    ELSE providers[core.provider].processors # <<>>

Written(lg, lvl, kind) ==
  SelectSeq(lg.cores, LAMBDA c : c.kind = kind /\ CoreEnabled(c, lvl))

\* What a Logger method does after it has written its entry: Fatal "then
\* calls os.Exit(1)", the others return (first with Error exiting as well).
AfterWrite_ErrorExits(method) ==
  IF method \in {"Fatal", "Error"} THEN "exiting" ELSE "running"

AfterWrite(method) ==
  IF method = "Fatal" THEN "exiting" ELSE "running"

\* Debug, Info, Warn, Error or Fatal on the logger the last construction call
\* returned.  A nil logger is dereferenced and the process panics.
LogCall ==
  /\ proc = "running"
  /\ Len(calls) < MaxLogs
  /\ last.op # "none"
  /\ \E m \in Methods :
       LET id  == Len(calls) + 1
           lvl == MethodLevel(m)
       IN /\ calls' = Append(calls, [method |-> m, level |-> lvl, logger |-> last.ptr,
                                     exportBuilt |-> last.pre.cfgs.Enabled,
                                     err |-> last.err])
          /\ IF last.ptr = Nil
               THEN /\ proc' = "panicked"
                    /\ UNCHANGED <<stdout, queue>>
               ELSE LET lg == loggers[last.ptr]
                        io == Written(lg, lvl, "io")
                        ot == Written(lg, lvl, "otelzap")
                    IN /\ stdout' = stdout \o
                            [i \in 1..Len(io) |->
                               [call |-> id, level |-> lvl, format |-> io[i].enc.format,
                                EncodeLevel |-> io[i].enc.EncodeLevel]]
                       /\ queue' = [p \in DOMAIN queue |->
                            queue[p] \o
                              [i \in 1..Len(SelectSeq(ot, LAMBDA c : c.provider = p)) |->
                                 [call |-> id, level |-> lvl]]]
                       /\ proc' = AfterWrite(m)
  /\ UNCHANGED <<cfgs, globalProvider, conns, exporters, providers, loggers, last,
                 collector, nBuilds, rev, exitStatus, mock, inst>>

\* os.Exit(1) at the end of Fatal
OsExit ==
  /\ proc = "exiting"
  /\ proc' = "exited"
  /\ exitStatus' = 1
  /\ UNCHANGED <<cfgs, globalProvider, conns, exporters, providers, loggers, last,
                 stdout, queue, collector, calls, nBuilds, rev, mock, inst>>

\* A unit test registers an expectation on its MockLogger.
MockExpect ==
  /\ \E method \in Methods :
       /\ method \notin mock.ExpectedCalls
       /\ mock' = MockOn(mock, method)
  /\ UNCHANGED <<cfgs, globalProvider, conns, exporters, providers, loggers, last,
                 stdout, queue, collector, calls, proc, nBuilds, rev, exitStatus, inst>>

\* The code under test calls a Logger method on the MockLogger.
MockCall ==
  /\ Len(mock.invoked) < MaxMockCalls
  /\ \E method \in Methods : mock' = MockLoggerMethod(mock, method)
  /\ UNCHANGED <<cfgs, globalProvider, conns, exporters, providers, loggers, last,
                 stdout, queue, collector, calls, proc, nBuilds, rev, exitStatus, inst>>

\* Goroutine g calls otlp.Install(cfgs); alone records that no other call
\* was running when this one began.
InstallStart(g) ==
  /\ inst[g].pc = "idle"
  /\ inst' = [inst EXCEPT ![g] =
                [@ EXCEPT !.pc = "check",
                          !.alone = \A h \in Installers \ {g} :
                                      inst[h].pc \in {"idle", "done"}]]
  /\ UNCHANGED <<cfgs, globalProvider, conns, exporters, providers, loggers, last,
                 stdout, queue, collector, calls, proc, nBuilds, rev, exitStatus, mock>>

\* Goroutine g runs the next line of its otlp.Install call.
InstallStep(g) ==
  /\ inst[g].pc \notin {"idle", "done"}
  /\ \E ok \in BOOLEAN :
       LET r == otlp_InstallStep(World, inst[g], ok)
       IN /\ cfgs' = r.w.cfgs
          /\ globalProvider' = r.w.global
          /\ conns' = r.w.conns
          /\ exporters' = r.w.exporters
          /\ providers' = r.w.providers
          /\ loggers' = r.w.loggers
          /\ queue' = [p \in 1..Len(r.w.providers) |->
                         IF p <= Len(queue) THEN queue[p] ELSE <<>>]
          /\ inst' = [inst EXCEPT ![g] = r.l]
  /\ UNCHANGED <<last, stdout, collector, calls, proc, nBuilds, rev, exitStatus, mock>>

\* The batch processor of provider p hands its buffered records to its
\* exporter, which delivers them to the collector.
BatchExport ==
  /\ proc = "running"
  /\ \E p \in DOMAIN queue :
       /\ queue[p] # <<>>
       /\ collector' = collector \o
            [i \in 1..Len(queue[p]) |->
               [call |-> queue[p][i].call, level |-> queue[p][i].level,
                provider |-> p, exporter |-> providers[p].processors[1].exporter]]
       /\ queue' = [queue EXCEPT ![p] = <<>>]
  /\ UNCHANGED <<cfgs, globalProvider, conns, exporters, providers, loggers, last,
                 stdout, calls, proc, nBuilds, rev, exitStatus, mock, inst>>

\* Construction: every builder, called through NewLogger or directly.
Next ==
  \/ CallNewLogger
  \/ CallNewLoggerNilNil
  \/ CallOtlpInstall
  \/ CallNoopInstall
  \/ Reconfigure
  \/ SiblingConnects

Spec == Init /\ [][Next]_vars

\* The life of a process that builds its logger through NewLogger, the public
\* entry point, and then logs through the handle it got.  The connection slot
\* starts empty and only Install fills it: which connection an exporter uses
\* does not affect what a logging call writes.
NextLogging ==
  \/ CallNewLogger
  \/ CallNewLoggerNilNil
  \/ Reconfigure
  \/ LogCall
  \/ OsExit
  \/ BatchExport

SpecLogging == Init /\ [][NextLogging]_vars

\* The same process with the scheduling Go gives it: the goroutine that
\* called Fatal goes on to os.Exit.
SpecLoggingFair == SpecLogging /\ WF_vars(OsExit)

\* A unit test with a MockLogger, as in the README: expectations, then the
\* code under test, then AssertExpectations.  The mock builds no logger, so
\* the configuration plays no part and is held at one value.
InitMock ==
  /\ Init
  /\ cfgs.Enabled = FALSE
  /\ cfgs.Environment = "UnknownEnv"
  /\ cfgs.LogLevel = "OTHER"
  /\ rev = [logging |-> "logging.go", otlp |-> "otlp.go", noop |-> "noop.go"]

NextMock ==
  \/ MockExpect
  \/ MockCall

SpecMock == InitMock /\ [][NextMock]_vars

\* Two goroutines call otlp.Install of src/otlp/otlp.go on one configuration
\* with export enabled and an empty connection slot; the lines of the two
\* calls interleave freely (the source takes no lock).
InitConc ==
  /\ Init
  /\ cfgs.Enabled
  /\ rev = [logging |-> "logging.go", otlp |-> "otlp.go", noop |-> "part_001"]

NextConc ==
  \/ \E g \in Installers : InstallStart(g)
  \/ \E g \in Installers : InstallStep(g)

SpecConc == InitConc /\ [][NextConc]_vars

\* ----------------------------------------------------------------- claims

\* The builders a call entered, in order.
Builders(trace) ==
  SelectSeq(trace, LAMBDA e : e \in {"otlp.Install", "noop.Install"})

RanOtlpInstall == "otlp.Install" \in Range(last.trace)

RanNoopInstall == "noop.Install" \in Range(last.trace)

IoCores(l) == {c \in Range(loggers[l].cores) : c.kind = "io"}

BridgeCores(l) == {c \in Range(loggers[l].cores) : c.kind = "otelzap"}

\* C1: a NewLogger call (src/logging.go) runs exactly one builder, otlp.Install
\* when OTLPConfigs.Enabled is true and noop.Install when it is false; with
\* export disabled it attempts no connection or exporter, creates no
\* connection and leaves cfgs.OTLPExporterConn as it was.
C1_OneBuilderPerCall ==
  (last.op = "NewLogger" /\ rev.logging = "logging.go") =>
    /\ Builders(last.trace) =
         IF last.pre.cfgs.Enabled THEN <<"otlp.Install">> ELSE <<"noop.Install">>
    /\ ~last.pre.cfgs.Enabled =>
         /\ last.post.nconns = last.pre.nconns
         /\ "otlpgrpc.NewExporterGRPCClient" \notin Range(last.trace)
         /\ "otlploggrpc.New" \notin Range(last.trace)
         /\ last.post.cfgs.OTLPExporterConn = last.pre.cfgs.OTLPExporterConn

\* A disabled NewLogger call on a configuration whose connection slot a
\* sibling had filled.
C1_Witness ==
  /\ last.op = "NewLogger"
  /\ rev.logging = "logging.go"
  /\ ~last.pre.cfgs.Enabled
  /\ last.pre.cfgs.OTLPExporterConn # Nil
  /\ Builders(last.trace) = <<"noop.Install">>

\* C2 (as claimed): when export is enabled and the connection step or the
\* exporter step fails, NewLogger returns a non-nil error together with a nil
\* Logger; an error never comes with a non-nil handle, and a nil handle never
\* comes with a nil error.
C2_ErrorWithNilHandle ==
  (last.op = "NewLogger" /\ rev.logging = "logging.go" /\ rev.otlp = "otlp.go"
     /\ last.pre.cfgs.Enabled) =>
    /\ ("zap.NewZapLogger" \notin Range(last.trace)) => last.err # NoErr
    /\ (last.err # NoErr) <=> IsNilInterface(last.handle)

\* C3: when cfgs.OTLPExporterConn holds a connection at the start of
\* otlp.Install (src/otlp/otlp.go), Install attempts and creates no connection,
\* the exporter it builds is over that connection, and the slot holds the same
\* connection afterwards.
C3_ReusesExistingConn ==
  (RanOtlpInstall /\ rev.otlp = "otlp.go" /\ last.pre.cfgs.OTLPExporterConn # Nil) =>
    /\ last.post.nconns = last.pre.nconns
    /\ "otlpgrpc.NewExporterGRPCClient" \notin Range(last.trace)
    /\ last.post.cfgs.OTLPExporterConn = last.pre.cfgs.OTLPExporterConn
    /\ (last.err = NoErr) => last.post.nexporters = last.pre.nexporters + 1
    /\ (last.post.nexporters > last.pre.nexporters) =>
         exporters[last.post.nexporters].conn = last.pre.cfgs.OTLPExporterConn

\* A successful Install over a connection that was already in the slot.
C3_Witness ==
  /\ RanOtlpInstall
  /\ rev.otlp = "otlp.go"
  /\ last.pre.cfgs.OTLPExporterConn # Nil
  /\ last.err = NoErr
  /\ exporters[last.post.nexporters].conn = last.pre.cfgs.OTLPExporterConn

InstallConns == {i \in DOMAIN conns : conns[i].by = "otlp.Install"}

\* C4: when cfgs.OTLPExporterConn is empty, otlp.Install (src/otlp/otlp.go)
\* creates one connection and writes it to the slot; over any sequence of
\* Install calls on the configuration at most one connection is ever created,
\* and every exporter is built over the connection in the slot.
C4_OneConnWrittenBack ==
  (rev.otlp = "otlp.go") =>
    /\ (RanOtlpInstall /\ last.pre.cfgs.OTLPExporterConn = Nil
          /\ last.err # "ErrConn") =>
         /\ last.post.nconns = last.pre.nconns + 1
         /\ conns[last.post.nconns].by = "otlp.Install"
         /\ last.post.cfgs.OTLPExporterConn = last.post.nconns
    /\ Cardinality(InstallConns) <= 1
    /\ Len(conns) <= 1
    /\ \A e \in DOMAIN exporters :
         /\ exporters[e].conn # Nil
         /\ exporters[e].conn = cfgs.OTLPExporterConn

\* Two successful Install calls, the first of which created the connection.
C4_Witness ==
  /\ rev.otlp = "otlp.go"
  /\ Len(exporters) = 2
  /\ Cardinality(InstallConns) = 1
  /\ exporters[1].conn = exporters[2].conn

ColorConsoleEnvs == {"LocalEnv", "DevelopmentEnv", "QaEnv", "UnknownEnv"}

PlainJsonEnvs == {"StagingEnv", "ProductionEnv"}

\* C5: for every environment and both builders (NewZapLogger, NewStdoutZapLogger)
\* the stdout core's encoder is colorized console text exactly in Local,
\* Development, QA and Unknown, and JSON with the plain lowercase level
\* encoder exactly in Staging and Production; the two builders agree, and no
\* color level encoder is attached in Staging or Production.  (No action
\* changes cfgs.AppConfigs.Environment, so it is the environment every logger
\* of the run was built under.)
C5_EncodingByEnvironment ==
  /\ \A l \in DOMAIN loggers :
       /\ IoCores(l) # {}
       /\ \A c \in IoCores(l) :
            /\ (cfgs.Environment \in ColorConsoleEnvs) <=>
                 (c.enc.format = "console"
                    /\ c.enc.EncodeLevel = "CapitalColorLevelEncoder")
            /\ (cfgs.Environment \in PlainJsonEnvs) <=>
                 (c.enc.format = "json" /\ c.enc.EncodeLevel = "LowercaseLevelEncoder")
  /\ \A l1, l2 \in DOMAIN loggers :
       \A c1 \in IoCores(l1), c2 \in IoCores(l2) :
         /\ c1.enc.format = c2.enc.format
         /\ c1.enc.EncodeLevel = c2.enc.EncodeLevel

\* In Staging, a logger from NewZapLogger and one from NewStdoutZapLogger.
C5_Witness ==
  /\ cfgs.Environment = "StagingEnv"
  /\ \E l1, l2 \in DOMAIN loggers :
       /\ BridgeCores(l1) # {}
       /\ BridgeCores(l2) = {}
       /\ \A c \in IoCores(l1) \cup IoCores(l2) : c.enc.format = "json"

\* C6: mapZapLogLevel is total: DEBUG, INFO, WARN, ERROR and PANIC give
\* Debug, Info, Warn, Error and Panic, any other level gives Info, and the
\* level never makes a builder fail.  (No action changes
\* cfgs.AppConfigs.LogLevel.)
C6_LevelMapping ==
  /\ \A level \in LogLevels :
       mapZapLogLevel(level) \in
         {DebugLevel, InfoLevel, WarnLevel, ErrorLevel, PanicLevel}
  /\ \A l \in DOMAIN loggers : \A c \in IoCores(l) :
       /\ (cfgs.LogLevel = "DEBUG") => c.minLevel = DebugLevel
       /\ (cfgs.LogLevel = "INFO")  => c.minLevel = InfoLevel
       /\ (cfgs.LogLevel = "WARN")  => c.minLevel = WarnLevel
       /\ (cfgs.LogLevel = "ERROR") => c.minLevel = ErrorLevel
       /\ (cfgs.LogLevel = "PANIC") => c.minLevel = PanicLevel
       /\ (cfgs.LogLevel \notin {"DEBUG", "INFO", "WARN", "ERROR", "PANIC"}) =>
            c.minLevel = InfoLevel
  /\ (RanNoopInstall) => last.err = NoErr

\* A logger built under a level that is none of the five constants.
C6_Witness ==
  /\ cfgs.LogLevel = "OTHER"
  /\ \E l \in DOMAIN loggers : \E c \in IoCores(l) : c.minLevel = InfoLevel

\* C7: after a successful otlp.Install the process-wide provider slot,
\* cfgs.LoggerProvider and the provider the returned logger's bridge core
\* forwards into are the provider this call built (the last writer wins), and
\* that provider has one batch processor, over the exporter this call built.
C7_LastProviderEverywhere ==
  (RanOtlpInstall /\ last.err = NoErr) =>
    LET p == last.post.nproviders
    IN /\ p = last.pre.nproviders + 1
       /\ last.post.global = p
       /\ last.post.cfgs.LoggerProvider = p
       /\ last.ptr \in DOMAIN loggers
       /\ BridgeCores(last.ptr) # {}
       /\ \A c \in BridgeCores(last.ptr) : c.provider = p
       /\ last.post.nexporters = last.pre.nexporters + 1
       /\ providers[p].processors = <<NewBatchProcessor(last.post.nexporters)>>

\* A second successful Install, replacing the provider of the first.
C7_Witness ==
  /\ RanOtlpInstall
  /\ last.err = NoErr
  /\ last.pre.global # Nil
  /\ last.post.global # last.pre.global
  /\ last.post.global = last.post.cfgs.LoggerProvider

C9_DisabledReturnsLogger ==
  (last.op = "NewLogger" /\ ~last.pre.cfgs.Enabled) =>
    /\ ~IsNilInterface(last.handle)
    /\ last.handle.ptr \in DOMAIN loggers
    /\ last.err = NoErr

Count(seq, c) == Cardinality({i \in DOMAIN seq : seq[i].call = c})

Queued(c) ==
  Cardinality({pi \in UNION {{<<p, i>> : i \in DOMAIN queue[p]} : p \in DOMAIN queue} :
                 queue[pi[1]][pi[2]].call = c})

\* C10: on a handle NewLogger built with export enabled, a logging call at or
\* above the stdout core's threshold puts exactly one record on standard
\* output and exactly one record into the batch processor of the provider the
\* handle was built with, which the exporter delivers to the collector once;
\* no call reaches either sink twice.
C10_OneRecordPerSink ==
  \A c \in DOMAIN calls :
    /\ Count(stdout, c) <= 1
    /\ Queued(c) + Count(collector, c) <= 1
    /\ (calls[c].exportBuilt /\ calls[c].err = NoErr) =>
         /\ calls[c].logger \in DOMAIN loggers
         /\ \A io \in IoCores(calls[c].logger) :
              (calls[c].level >= io.minLevel) =>
                /\ Count(stdout, c) = 1
                /\ Queued(c) + Count(collector, c) = 1
         /\ \A b \in BridgeCores(calls[c].logger) :
              /\ \A p \in DOMAIN queue :
                   (\E i \in DOMAIN queue[p] : queue[p][i].call = c) => p = b.provider
              /\ \A i \in DOMAIN collector :
                   (collector[i].call = c) =>
                     /\ collector[i].provider = b.provider
                     /\ providers[b.provider].processors =
                          <<NewBatchProcessor(collector[i].exporter)>>

\* An Info call on an export-enabled handle, written to standard output and
\* delivered to the collector.
C10_Witness ==
  \E c \in DOMAIN calls :
    /\ calls[c].exportBuilt
    /\ calls[c].err = NoErr
    /\ calls[c].method = "Info"
    /\ Count(stdout, c) = 1
    /\ Count(collector, c) = 1
    /\ Queued(c) = 0


\* The records call c put on standard output.
StdoutOf(c) == {i \in DOMAIN stdout : stdout[i].call = c}

\* C11: on a handle NewLogger built with export disabled, a logging call below
\* the threshold mapZapLogLevel gives for cfgs.AppConfigs.LogLevel writes
\* nothing; a call at or above it writes exactly one record on standard output;
\* neither reaches a batch processor or the collector.  In Staging and
\* Production the record is JSON with the plain lowercase level encoder.
C11_DisabledHandleStdoutOnly ==
  \A c \in DOMAIN calls :
    (~calls[c].exportBuilt /\ calls[c].logger # Nil) =>
      /\ Queued(c) = 0
      /\ Count(collector, c) = 0
      /\ (calls[c].level < mapZapLogLevel(cfgs.LogLevel)) => StdoutOf(c) = {}
      /\ (calls[c].level >= mapZapLogLevel(cfgs.LogLevel)) =>
           Cardinality(StdoutOf(c)) = 1
      /\ (cfgs.Environment \in PlainJsonEnvs) =>
           \A i \in StdoutOf(c) :
             /\ stdout[i].format = "json"
             /\ stdout[i].EncodeLevel = "LowercaseLevelEncoder"

\* Production at level WARN, export disabled: an Info call that wrote nothing.
C11_Witness ==
  /\ cfgs.Environment = "ProductionEnv"
  /\ cfgs.LogLevel = "WARN"
  /\ \E c \in DOMAIN calls :
       /\ ~calls[c].exportBuilt
       /\ calls[c].logger # Nil
       /\ calls[c].method = "Info"
       /\ StdoutOf(c) = {}


\* The Fatal calls made on a constructed logger.
FatalCalls == {c \in DOMAIN calls : calls[c].method = "Fatal" /\ calls[c].logger # Nil}

C13_MockVerifiesCalls ==
  /\ Range(mock.invoked) \subseteq Range(mock.Calls)
  /\ AssertExpectations(mock) <=> (mock.ExpectedCalls \subseteq Range(mock.invoked))


\* C14 (as claimed): every exporter otlp.Install constructs is given gzip
\* compression and the configured export timeout, over a new connection or a
\* reused one.
C14_GzipAndTimeout ==
  \A e \in DOMAIN exporters :
    /\ exporters[e].compressor = "gzip"
    /\ exporters[e].timeout = "ExporterTimeout"

\* C15 (as claimed): on a handle NewLogger built with export enabled, a call
\* below the threshold mapZapLogLevel gives for cfgs.AppConfigs.LogLevel
\* reaches no sink: nothing on standard output, nothing in a batch processor,
\* nothing at the collector.
C15_ThresholdFiltersEverySink ==
  \A c \in DOMAIN calls :
    (/\ calls[c].exportBuilt
     /\ calls[c].err = NoErr
     /\ calls[c].level < mapZapLogLevel(cfgs.LogLevel)) =>
      /\ StdoutOf(c) = {}
      /\ Queued(c) = 0
      /\ Count(collector, c) = 0


\* Both concurrent calls have returned a logger.
BothReturned == \A g \in Installers : inst[g].pc = "done" /\ inst[g].err = NoErr

\* Neither call began while the other was running.
OneAfterTheOther == \A g \in Installers : inst[g].alone

\* C16 (as claimed): two concurrent otlp.Install calls on one configuration
\* with an empty connection slot create exactly one connection, and both
\* exporters are built over it, in every interleaving.
C16_OneConnectionShared ==
  BothReturned =>
    /\ Len(conns) = 1
    /\ \A g \in Installers : exporters[inst[g].exp].conn = cfgs.OTLPExporterConn

\* C16 (amended): each call creates at most one connection, the slot ends up
\* holding a connection one of the calls created, and each exporter is built
\* over a connection one of the calls created; exactly one connection,
\* shared by both exporters, is guaranteed only when the calls run one after
\* the other.
C16_OneConnectionPerCall ==
  BothReturned =>
    /\ Len(conns) >= 1
    /\ Len(conns) <= Cardinality(Installers)
    /\ \A i \in DOMAIN conns :
         Cardinality({g \in Installers : inst[g].conn = i}) = 1
    /\ cfgs.OTLPExporterConn \in DOMAIN conns
    /\ \A g \in Installers : exporters[inst[g].exp].conn \in DOMAIN conns
    /\ OneAfterTheOther =>
         /\ Len(conns) = 1
         /\ \A g \in Installers : exporters[inst[g].exp].conn = cfgs.OTLPExporterConn

\* Both calls found the slot empty: two connections, and the two exporters
\* on different ones.
C16_Witness ==
  /\ BothReturned
  /\ Len(conns) = 2
  /\ \E g, h \in Installers : exporters[inst[g].exp].conn # exporters[inst[h].exp].conn

\* C17 (as claimed): once two concurrent otlp.Install calls have returned,
\* the global slot and cfgs.LoggerProvider hold the same provider.
C17_SlotsAgree ==
  BothReturned => globalProvider = cfgs.LoggerProvider

\* C17 (amended): once both calls have returned, the global slot holds the
\* provider of one of the calls and cfgs.LoggerProvider holds the provider of
\* one of the calls; they are the same provider, the one of the later call,
\* only when the calls run one after the other.
C17_SlotsHoldACallsProvider ==
  BothReturned =>
    /\ globalProvider \in {inst[g].provider : g \in Installers}
    /\ cfgs.LoggerProvider \in {inst[g].provider : g \in Installers}
    /\ \A g \in Installers : inst[g].provider \in DOMAIN providers
    /\ OneAfterTheOther =>
         /\ globalProvider = cfgs.LoggerProvider
         /\ globalProvider = Len(providers)

\* The two slots hold the providers of different calls.
C17_Witness ==
  /\ BothReturned
  /\ globalProvider # cfgs.LoggerProvider


\* The external constructors a builder calls, and the error each one stands
\* for when it fails.
ConstructionSteps == {"otlpgrpc.NewExporterGRPCClient", "otlploggrpc.New"}

StepError(step) ==
  IF step = "otlpgrpc.NewExporterGRPCClient" THEN "ErrConn" ELSE "ErrExporter"

Occurrences(seq, e) == Cardinality({i \in DOMAIN seq : seq[i] = e})

\* C18: when NewLogger returns an error, the last thing the call attempted is
\* a construction step and the error is that step's own error value; and no
\* NewLogger call attempts a construction step more than once.
C18_StepErrorUnwrappedNoRetry ==
  (last.op = "NewLogger") =>
    /\ \A step \in ConstructionSteps : Occurrences(last.trace, step) <= 1
    /\ (last.err # NoErr) =>
         /\ last.trace # <<>>
         /\ last.trace[Len(last.trace)] \in ConstructionSteps
         /\ last.err = StepError(last.trace[Len(last.trace)])

\* The connection was created, the exporter failed, and NewLogger returned
\* the exporter's error.
C18_Witness ==
  /\ last.op = "NewLogger"
  /\ last.err = "ErrExporter"
  /\ Occurrences(last.trace, "otlpgrpc.NewExporterGRPCClient") = 1
  /\ Occurrences(last.trace, "otlploggrpc.New") = 1

\* C19: a failed otlp.Install (src/otlp/otlp.go) leaves the global slot,
\* cfgs.LoggerProvider, cfgs.Logger and every other field but the connection
\* slot as they were, and creates no exporter, provider or logger.  The slot
\* holds the connection the call created when the slot was empty and the
\* exporter step failed; otherwise it is as it was and no connection was
\* created.
C19_FailedInstallFrame ==
  (RanOtlpInstall /\ last.err # NoErr /\ rev.otlp = "otlp.go") =>
    /\ last.post.global = last.pre.global
    /\ [last.post.cfgs EXCEPT !.OTLPExporterConn = last.pre.cfgs.OTLPExporterConn]
         = last.pre.cfgs
    /\ last.post.nexporters = last.pre.nexporters
    /\ last.post.nproviders = last.pre.nproviders
    /\ last.post.nloggers = last.pre.nloggers
    /\ IF last.err = "ErrExporter" /\ last.pre.cfgs.OTLPExporterConn = Nil
         THEN /\ last.post.nconns = last.pre.nconns + 1
              /\ last.post.cfgs.OTLPExporterConn = last.post.nconns
              /\ conns[last.post.nconns].by = "otlp.Install"
         ELSE /\ last.post.nconns = last.pre.nconns
              /\ last.post.cfgs.OTLPExporterConn = last.pre.cfgs.OTLPExporterConn

\* After an earlier successful build, an Install that created its connection
\* and failed on the exporter: the slot holds the new connection, the
\* earlier provider is still registered.
C19_Witness ==
  /\ RanOtlpInstall
  /\ rev.otlp = "otlp.go"
  /\ last.err = "ErrExporter"
  /\ last.pre.cfgs.OTLPExporterConn = Nil
  /\ last.post.cfgs.OTLPExporterConn # Nil
  /\ last.post.cfgs.Logger # Nil

\* C20: a successful NewLogger with export disabled leaves in cfgs.Logger the
\* logger it returned; a successful NewLogger with export enabled returns a
\* new logger and leaves cfgs.Logger as it was.
C20_CfgsLoggerByPath ==
  (last.op = "NewLogger" /\ last.err = NoErr) =>
    /\ (~last.pre.cfgs.Enabled /\ rev.logging = "logging.go") =>
         /\ last.ptr = last.post.nloggers
         /\ last.post.nloggers = last.pre.nloggers + 1
         /\ last.post.cfgs.Logger = last.ptr
    /\ last.pre.cfgs.Enabled =>
         /\ last.ptr = last.post.nloggers
         /\ last.post.nloggers = last.pre.nloggers + 1
         /\ last.post.cfgs.Logger = last.pre.cfgs.Logger
         /\ last.post.cfgs.Logger # last.ptr

\* An export-enabled NewLogger after a disabled one: cfgs.Logger still holds
\* the stdout logger of the first call.
C20_Witness ==
  /\ last.op = "NewLogger"
  /\ last.err = NoErr
  /\ last.pre.cfgs.Enabled
  /\ last.pre.cfgs.Logger # Nil
  /\ last.post.cfgs.Logger = last.pre.cfgs.Logger
  /\ last.ptr \in DOMAIN loggers

====
